---- MODULE Spec2Model ----
(***************************************************************************)
(* Model of rellume's basic-block layer (src/src/llbasicblock.cc):         *)
(* BasicBlock::AddPhis, AddBranches, AddInst, Terminate and FillPhis,      *)
(* driven by a function-level driver that runs the phases of every block   *)
(* in order (placeholders, translation and edge registration, terminator,  *)
(* and after all blocks are terminated, backfill).                         *)
(***************************************************************************)
EXTENDS Integers, Sequences, FiniteSets, TLC

(* ---- bounds of the model ---- *)
NumBlocks == 2
MaxInsts == 2
MaxBranchCalls == 2
\* AddInst and AddBranches calls together
MaxCalls == 3
\* scaled register file: LL_RI_GPMax, LL_RI_XMMMax, RFLAG_Max of the code
LL_RI_GPMax == 1
LL_RI_XMMMax == 1
RFLAG_Max == 1
\* scaled width of uintptr_t
AddrBits == 3

NULL == 0

Blocks == 1..NumBlocks
BlockOrNull == Blocks \cup {NULL}
AddrModulus == 2^AddrBits

(* ---- register identities, facets, values ---- *)
GPFacetSeq == <<"I64", "I32">>
SSEFacetSeq == <<"I128">>

GPKeySeq ==
  [n \in 1..(LL_RI_GPMax * Len(GPFacetSeq)) |->
     <<"gp", (n - 1) \div Len(GPFacetSeq), GPFacetSeq[((n - 1) % Len(GPFacetSeq)) + 1]>>]
SSEKeySeq ==
  [n \in 1..(LL_RI_XMMMax * Len(SSEFacetSeq)) |->
     <<"sse", (n - 1) \div Len(SSEFacetSeq), SSEFacetSeq[((n - 1) % Len(SSEFacetSeq)) + 1]>>]
FlagKeySeq == [n \in 1..RFLAG_Max |-> <<"flag", n - 1, "I1">>]

Range(s) == {s[i] : i \in DOMAIN s}

GPKeys == Range(GPKeySeq)
SSEKeys == Range(SSEKeySeq)
FlagKeys == Range(FlagKeySeq)
IPKey == <<"ip", 0, "I64">>
IPKeys == {IPKey, <<"ip", 0, "I32">>}
PhiRegKeys == GPKeys \cup SSEKeys
PhiKeys == PhiRegKeys \cup FlagKeys
AllKeys == PhiKeys \cup IPKeys

\* the order in which AddPhis and FillPhis visit the placeholders
PhiKeySeq == GPKeySeq \o SSEKeySeq \o FlagKeySeq

NoValue == <<"none", 0, 0>>
PhiValue(id) == <<"phi", id, 0>>
ConstantInt(v) == <<"const", v, 0>>
InstValue(b, n) == <<"inst", b, n>>
InstFlag(b, n) == <<"instflag", b, n>>

\* the branch selector new_rip
NullRip == <<"nullptr", "", 0, 0>>
SelectInst(c, t, f) == <<"select", c, t, f>>
OtherRip == <<"other", "", 0, 0>>

\* emitted terminators
Br(t) == <<"br", t, NULL>>
CondBr(t, f) == <<"condbr", t, f>>

(* ---- decoded instructions ---- *)
Opcodes == {"NOP", "ADD", "MOVL", "JMP", "JCC", "UD", "RET"}
Instrs ==
  { [type |-> "NOP", addr |-> AddrModulus - 1, len |-> 1],
    [type |-> "ADD", addr |-> 0, len |-> 2],
    [type |-> "MOVL", addr |-> 1, len |-> 2],
    [type |-> "JMP", addr |-> 2, len |-> 2],
    [type |-> "JCC", addr |-> 2, len |-> 1],
    [type |-> "UD",  addr |-> 4, len |-> 1],
    [type |-> "RET", addr |-> 5, len |-> 1],
    [type |-> "BAD", addr |-> 6, len |-> 1] }
JumpTarget == ConstantInt(0)

\* the facet-requirement set a block is constructed with: every facet of every
\* general-purpose and vector register for odd blocks, none for even blocks
FacetSet(b) == IF b % 2 = 1 THEN PhiRegKeys ELSE {}

VARIABLES
  facets,          \* phis_gp[i].facets(), phis_sse[i].facets() per block
  phis,            \* phis_gp[i].at(f), phis_sse[i].at(f), phiFlags[i] per block
  regfile,         \* the Register File of each block
  phiNodes,        \* the PHI nodes created so far: parent block and incoming list
  preds,           \* predecessor list of each block
  nextBranch,      \* taken-branch successor of each block
  nextFallThrough, \* fall-through successor of each block
  new_rip,         \* branch selector of each block
  term,            \* terminators emitted into each block
  state_regfile,   \* state.regfile, the live Register File handle
  fault,           \* "none", or how the process died
  diag,            \* addresses printed by the diagnostic
  pc,              \* driver: phase of each block
  insts,           \* driver: instructions handed to AddInst, per block
  branchLog        \* driver: the AddBranches calls made, in order

vars == <<facets, phis, regfile, phiNodes, preds, nextBranch, nextFallThrough,
          new_rip, term, state_regfile, fault, diag, pc, insts, branchLog>>

(* ---- Register File ---- *)
SameReg(k1, k2) == k1[1] = k2[1] /\ k1[2] = k2[2]

SetReg(rf, key, val, inval) ==
  [k \in DOMAIN rf |->
     IF k = key THEN val
     ELSE IF inval /\ SameReg(k, key) THEN NoValue
     ELSE rf[k]]

GetReg(rf, key) == rf[key]

SetFlag(rf, i, val) == [rf EXCEPT ![<<"flag", i, "I1">>] = val]

GetFlag(rf, i) == rf[<<"flag", i, "I1">>]

(* ---- construction ---- *)
Init ==
  /\ facets = [b \in Blocks |-> FacetSet(b)]
  /\ phis = [b \in Blocks |-> [k \in PhiKeys |-> NoValue]]
  /\ regfile = [b \in Blocks |-> [k \in AllKeys |-> NoValue]]
  /\ phiNodes = <<>>
  /\ preds = [b \in Blocks |-> <<>>]
  /\ nextBranch = [b \in Blocks |-> NULL]
  /\ nextFallThrough = [b \in Blocks |-> NULL]
  /\ new_rip = [b \in Blocks |-> NullRip]
  /\ term = [b \in Blocks |-> <<>>]
  /\ state_regfile = NULL
  /\ fault = "none"
  /\ diag = <<>>
  /\ pc = [b \in Blocks |-> "created"]
  /\ insts = [b \in Blocks |-> <<>>]
  /\ branchLog = <<>>

(* ---- BasicBlock::AddPhis ---- *)
\* mutant: every facet of every register gets a placeholder, required or not
IsRequiredAlways(b, k) == TRUE

IsRequired(b, k) == k[1] = "flag" \/ k \in facets[b]

Required(b) == SelectSeq(PhiKeySeq, LAMBDA k : IsRequired(b, k))

\* mutant: the placeholders are installed with invalidating writes
RECURSIVE InstallPhisInvalidating(_, _, _, _)
InstallPhisInvalidating(rf, rs, base, i) ==
  IF i > Len(rs) THEN rf
  ELSE InstallPhisInvalidating(
         IF rs[i][1] = "flag" THEN SetFlag(rf, rs[i][2], PhiValue(base + i))
         ELSE SetReg(rf, rs[i], PhiValue(base + i), TRUE),
         rs, base, i + 1)

RECURSIVE InstallPhis(_, _, _, _)
InstallPhis(rf, rs, base, i) ==
  IF i > Len(rs) THEN rf
  ELSE InstallPhis(
         IF rs[i][1] = "flag" THEN SetFlag(rf, rs[i][2], PhiValue(base + i))
         ELSE SetReg(rf, rs[i], PhiValue(base + i), FALSE),
         rs, base, i + 1)

AddPhis(b) ==
  LET rs == Required(b)
      base == Len(phiNodes)
  IN /\ state_regfile' = b
     /\ phiNodes' = phiNodes \o [i \in 1..Len(rs) |-> [parent |-> b, key |-> rs[i], incoming |-> <<>>]]
     /\ regfile' = [regfile EXCEPT ![b] = InstallPhis(regfile[b], rs, base, 1)]
     /\ phis' = [phis EXCEPT ![b] =
                   [k \in PhiKeys |->
                      IF \E i \in 1..Len(rs) : rs[i] = k
                      THEN PhiValue(base + (CHOOSE i \in 1..Len(rs) : rs[i] = k))
                      ELSE phis[b][k]]]
     /\ UNCHANGED <<facets, preds, nextBranch, nextFallThrough, new_rip, term, fault, diag>>

(* ---- BasicBlock::AddBranches ---- *)
\* mutant: a block already in a predecessor list is not appended again
AddBranchesOnce(b, branch, fallThrough) ==
  LET p1 == IF branch # NULL /\ b \notin Range(preds[branch])
            THEN [preds EXCEPT ![branch] = Append(@, b)]
            ELSE preds
      p2 == IF fallThrough # NULL /\ b \notin Range(p1[fallThrough])
            THEN [p1 EXCEPT ![fallThrough] = Append(@, b)]
            ELSE p1
  IN /\ preds' = p2
     /\ nextBranch' = IF branch # NULL THEN [nextBranch EXCEPT ![b] = branch] ELSE nextBranch
     /\ nextFallThrough' = IF fallThrough # NULL
                           THEN [nextFallThrough EXCEPT ![b] = fallThrough]
                           ELSE nextFallThrough
     /\ UNCHANGED <<facets, phis, regfile, phiNodes, new_rip, term, state_regfile, fault, diag>>

\* mutant: the fall-through successor is registered only when no
\* taken-branch successor was
AddBranchesElse(b, branch, fallThrough) ==
  LET p1 == IF branch # NULL
            THEN [preds EXCEPT ![branch] = Append(@, b)]
            ELSE preds
      p2 == IF branch = NULL /\ fallThrough # NULL
            THEN [p1 EXCEPT ![fallThrough] = Append(@, b)]
            ELSE p1
  IN /\ preds' = p2
     /\ nextBranch' = IF branch # NULL THEN [nextBranch EXCEPT ![b] = branch] ELSE nextBranch
     /\ nextFallThrough' = IF branch = NULL /\ fallThrough # NULL
                           THEN [nextFallThrough EXCEPT ![b] = fallThrough]
                           ELSE nextFallThrough
     /\ UNCHANGED <<facets, phis, regfile, phiNodes, new_rip, term, state_regfile, fault, diag>>

\* mutant: the fall-through link is recorded without registering the caller
\* with the fall-through successor
AddBranchesLinkOnly(b, branch, fallThrough) ==
  LET p1 == IF branch # NULL
            THEN [preds EXCEPT ![branch] = Append(@, b)]
            ELSE preds
  IN /\ preds' = p1
     /\ nextBranch' = IF branch # NULL THEN [nextBranch EXCEPT ![b] = branch] ELSE nextBranch
     /\ nextFallThrough' = IF fallThrough # NULL
                           THEN [nextFallThrough EXCEPT ![b] = fallThrough]
                           ELSE nextFallThrough
     /\ UNCHANGED <<facets, phis, regfile, phiNodes, new_rip, term, state_regfile, fault, diag>>

AddBranches(b, branch, fallThrough) ==
  LET p1 == IF branch # NULL
            THEN [preds EXCEPT ![branch] = Append(@, b)]
            ELSE preds
      p2 == IF fallThrough # NULL
            THEN [p1 EXCEPT ![fallThrough] = Append(@, b)]
            ELSE p1
  IN /\ preds' = p2
     /\ nextBranch' = IF branch # NULL THEN [nextBranch EXCEPT ![b] = branch] ELSE nextBranch
     /\ nextFallThrough' = IF fallThrough # NULL
                           THEN [nextFallThrough EXCEPT ![b] = fallThrough]
                           ELSE nextFallThrough
     /\ UNCHANGED <<facets, phis, regfile, phiNodes, new_rip, term, state_regfile, fault, diag>>

(* ---- opcode handlers (rellume/opcodes.inc) ---- *)
\* what the handler of an instruction does to the Register File and to the
\* branch selector; n is the index of the instruction within the block
\* ADD stores the full register (invalidating write) and a flag; MOVL stores
\* the 32-bit facet alone (plain write); JMP stores the 32-bit facet of the
\* instruction pointer (plain write); the others leave the Register File
HandlerRegfile(type, rf, b, n) ==
  CASE type = "ADD" ->
         SetFlag(SetReg(rf, <<"gp", 0, "I64">>, InstValue(b, n), TRUE), 0, InstFlag(b, n))
    [] type = "MOVL" -> SetReg(rf, <<"gp", 0, "I32">>, InstValue(b, n), FALSE)
    [] type = "JMP" -> SetReg(rf, <<"ip", 0, "I32">>, InstValue(b, n), FALSE)
    [] OTHER -> rf

HandlerRip(type, sel, ripValue) ==
  CASE type = "JMP" -> SelectInst("ctrue", JumpTarget, ripValue)
    [] type = "JCC" -> SelectInst("runtime", JumpTarget, ripValue)
    [] type = "UD"  -> SelectInst("undef", ripValue, ripValue)
    [] type = "RET" -> OtherRip
    [] OTHER -> sel

\* the process does not continue past an unreachable-code condition
warn_if_reached == "unreachable"

(* ---- BasicBlock::AddInst ---- *)
NextRip(instr) == (instr.addr + instr.len) % AddrModulus

\* mutant: an unrecognized opcode is reported and translation goes on
AddInstGoesOn(b, instr) ==
  LET n == Len(insts[b]) + 1
      ripValue == ConstantInt(NextRip(instr))
      rf == SetReg(regfile[b], IPKey, ripValue, TRUE)
      sel == SelectInst("cfalse", ripValue, ripValue)
  IN /\ state_regfile' = b
     /\ IF instr.type \in Opcodes
        THEN /\ regfile' = [regfile EXCEPT ![b] = HandlerRegfile(instr.type, rf, b, n)]
             /\ new_rip' = [new_rip EXCEPT ![b] = HandlerRip(instr.type, sel, ripValue)]
             /\ UNCHANGED <<diag, fault>>
        ELSE /\ regfile' = [regfile EXCEPT ![b] = rf]
             /\ new_rip' = [new_rip EXCEPT ![b] = sel]
             /\ diag' = Append(diag, instr.addr)
             /\ UNCHANGED fault
     /\ UNCHANGED <<facets, phis, phiNodes, preds, nextBranch, nextFallThrough, term>>

\* mutant: the instruction-pointer write leaves the sibling facets in place
AddInstPlainRip(b, instr) ==
  LET n == Len(insts[b]) + 1
      ripValue == ConstantInt(NextRip(instr))
      rf == SetReg(regfile[b], IPKey, ripValue, FALSE)
      sel == SelectInst("cfalse", ripValue, ripValue)
  IN /\ state_regfile' = b
     /\ IF instr.type \in Opcodes
        THEN /\ regfile' = [regfile EXCEPT ![b] = HandlerRegfile(instr.type, rf, b, n)]
             /\ new_rip' = [new_rip EXCEPT ![b] = HandlerRip(instr.type, sel, ripValue)]
             /\ UNCHANGED <<diag, fault>>
        ELSE /\ regfile' = [regfile EXCEPT ![b] = rf]
             /\ new_rip' = [new_rip EXCEPT ![b] = sel]
             /\ diag' = Append(diag, instr.addr)
             /\ fault' = warn_if_reached
     /\ UNCHANGED <<facets, phis, phiNodes, preds, nextBranch, nextFallThrough, term>>

\* mutant: the branch selector is created for the first instruction of the
\* block only
AddInstKeepsSelector(b, instr) ==
  LET n == Len(insts[b]) + 1
      ripValue == ConstantInt(NextRip(instr))
      rf == SetReg(regfile[b], IPKey, ripValue, TRUE)
      sel == IF new_rip[b] = NullRip
             THEN SelectInst("cfalse", ripValue, ripValue)
             ELSE new_rip[b]
  IN /\ state_regfile' = b
     /\ IF instr.type \in Opcodes
        THEN /\ regfile' = [regfile EXCEPT ![b] = HandlerRegfile(instr.type, rf, b, n)]
             /\ new_rip' = [new_rip EXCEPT ![b] = HandlerRip(instr.type, sel, ripValue)]
             /\ UNCHANGED <<diag, fault>>
        ELSE /\ regfile' = [regfile EXCEPT ![b] = rf]
             /\ new_rip' = [new_rip EXCEPT ![b] = sel]
             /\ diag' = Append(diag, instr.addr)
             /\ fault' = warn_if_reached
     /\ UNCHANGED <<facets, phis, phiNodes, preds, nextBranch, nextFallThrough, term>>

AddInst(b, instr) ==
  LET n == Len(insts[b]) + 1
      ripValue == ConstantInt(NextRip(instr))
      rf == SetReg(regfile[b], IPKey, ripValue, TRUE)
      sel == SelectInst("cfalse", ripValue, ripValue)
  IN /\ state_regfile' = b
     /\ IF instr.type \in Opcodes
        THEN /\ regfile' = [regfile EXCEPT ![b] = HandlerRegfile(instr.type, rf, b, n)]
             /\ new_rip' = [new_rip EXCEPT ![b] = HandlerRip(instr.type, sel, ripValue)]
             /\ UNCHANGED <<diag, fault>>
        ELSE /\ regfile' = [regfile EXCEPT ![b] = rf]
             /\ new_rip' = [new_rip EXCEPT ![b] = sel]
             /\ diag' = Append(diag, instr.addr)
             /\ fault' = warn_if_reached
     /\ UNCHANGED <<facets, phis, phiNodes, preds, nextBranch, nextFallThrough, term>>

(* ---- BasicBlock::Terminate ---- *)
\* llvm::dyn_cast<llvm::Constant>: constants of the IR, UndefValue among them
IsConstant(cond) == cond \in {"cfalse", "ctrue", "undef"}
\* llvm::Constant::isNullValue
IsNullValue(cond) == cond = "cfalse"
IsUndefValue(cond) == cond = "undef"

\* builder->CreateBr(target->llvmBB): reading llvmBB through a null
\* BasicBlock* is undefined; the process dies or a jump with no registered
\* target is built
CreateBr(target) ==
  IF target # NULL
  THEN {[emit |-> <<Br(target)>>, fault |-> "none"]}
  ELSE {[emit |-> <<>>, fault |-> "segv"], [emit |-> <<Br(NULL)>>, fault |-> "none"]}

\* mutant: the targets of the conditional jump are swapped
CreateCondBrSwapped(t, f) == {[emit |-> <<CondBr(f, t)>>, fault |-> "none"]}

CreateCondBr(t, f) == {[emit |-> <<CondBr(t, f)>>, fault |-> "none"]}

AssertFailed == {[emit |-> <<>>, fault |-> "assert"]}

NoTerminator == {[emit |-> <<>>, fault |-> "none"]}

\* mutant: an uninitialized selector jumps to the taken-branch successor, and a
\* constant condition is resolved the wrong way round
TerminateOutcomesTaken(sel, nb, nf) ==
  IF sel = NullRip
  THEN CreateBr(nb)
  ELSE IF sel[1] = "select"
  THEN LET cond == sel[2]
       IN IF IsConstant(cond)
          THEN IF ~(nb # NULL \/ nf # NULL) THEN AssertFailed
               ELSE IF IsNullValue(cond) THEN CreateBr(nb)
               ELSE CreateBr(nf)
          ELSE IF ~IsUndefValue(cond)
          THEN IF ~(nb # NULL /\ nf # NULL) THEN AssertFailed
               ELSE CreateCondBr(nb, nf)
          ELSE NoTerminator
  ELSE NoTerminator

TerminateOutcomes(sel, nb, nf) ==
  IF sel = NullRip
  THEN CreateBr(nf)
  ELSE IF sel[1] = "select"
  THEN LET cond == sel[2]
       IN IF IsConstant(cond)
          THEN IF ~(nb # NULL \/ nf # NULL) THEN AssertFailed
               ELSE IF IsNullValue(cond) THEN CreateBr(nf)
               ELSE CreateBr(nb)
          ELSE IF ~IsUndefValue(cond)
          THEN IF ~(nb # NULL /\ nf # NULL) THEN AssertFailed
               ELSE CreateCondBr(nb, nf)
          ELSE NoTerminator
  ELSE NoTerminator

Terminate(b) ==
  \E o \in TerminateOutcomes(new_rip[b], nextBranch[b], nextFallThrough[b]) :
    /\ state_regfile' = b
    /\ term' = [term EXCEPT ![b] = @ \o o.emit]
    /\ fault' = o.fault
    /\ UNCHANGED <<facets, phis, regfile, phiNodes, preds, nextBranch, nextFallThrough,
                   new_rip, diag>>

(* ---- BasicBlock::FillPhis ---- *)
PhiId(v) == v[2]

\* mutant: the value the predecessor held at its entry (its own placeholder)
\* is added instead of its final Register File value
RECURSIVE AddIncomingSnapshot(_, _, _, _, _)
AddIncomingSnapshot(nodes, b, pred, rs, i) ==
  IF i > Len(rs) THEN nodes
  ELSE LET k == rs[i]
           id == PhiId(phis[b][k])
       IN AddIncomingSnapshot(
            [nodes EXCEPT ![id].incoming = Append(@, <<phis[pred][k], pred>>)],
            b, pred, rs, i + 1)

\* phi->addIncoming(value, pred->llvmBB) for every placeholder of b, for one pred
RECURSIVE AddIncomingFor(_, _, _, _, _)
AddIncomingFor(nodes, b, pred, rs, i) ==
  IF i > Len(rs) THEN nodes
  ELSE LET k == rs[i]
           id == PhiId(phis[b][k])
           value == IF k[1] = "flag" THEN GetFlag(regfile[pred], k[2])
                    ELSE GetReg(regfile[pred], k)
       IN AddIncomingFor([nodes EXCEPT ![id].incoming = Append(@, <<value, pred>>)],
                         b, pred, rs, i + 1)

\* mutant: the predecessor list is walked from its last entry to its first
RECURSIVE FillFromBackwards(_, _, _)
FillFromBackwards(nodes, b, j) ==
  IF j > Len(preds[b]) THEN nodes
  ELSE FillFromBackwards(
         AddIncomingFor(nodes, b, preds[b][Len(preds[b]) + 1 - j], Required(b), 1), b, j + 1)

RECURSIVE FillFrom(_, _, _)
FillFrom(nodes, b, j) ==
  IF j > Len(preds[b]) THEN nodes
  ELSE FillFrom(AddIncomingFor(nodes, b, preds[b][j], Required(b), 1), b, j + 1)

\* mutant: the first predecessor is skipped
FillPhisSkipsFirst(b) ==
  /\ state_regfile' = NULL
  /\ phiNodes' = FillFrom(phiNodes, b, 2)
  /\ UNCHANGED <<facets, phis, regfile, preds, nextBranch, nextFallThrough, new_rip,
                 term, fault, diag>>

\* mutant: the predecessor list is emptied once its entries have been used
FillPhisDrainsPreds(b) ==
  /\ state_regfile' = NULL
  /\ phiNodes' = FillFrom(phiNodes, b, 1)
  /\ preds' = [preds EXCEPT ![b] = <<>>]
  /\ UNCHANGED <<facets, phis, regfile, nextBranch, nextFallThrough, new_rip,
                 term, fault, diag>>

FillPhis(b) ==
  /\ state_regfile' = NULL
  /\ phiNodes' = FillFrom(phiNodes, b, 1)
  /\ UNCHANGED <<facets, phis, regfile, preds, nextBranch, nextFallThrough, new_rip,
                 term, fault, diag>>

(* ---- driver ---- *)
TotalInsts == LET RECURSIVE Sum(_)
                  Sum(b) == IF b = 0 THEN 0 ELSE Len(insts[b]) + Sum(b - 1)
              IN Sum(NumBlocks)

DriverAddPhis(b) ==
  /\ fault = "none"
  /\ pc[b] = "created"
  /\ AddPhis(b)
  /\ pc' = [pc EXCEPT ![b] = "open"]
  /\ UNCHANGED <<insts, branchLog>>

DriverAddBranches(b, branch, fallThrough) ==
  /\ fault = "none"
  /\ pc[b] \in {"created", "open"}
  /\ Len(branchLog) < MaxBranchCalls
  /\ Len(branchLog) + TotalInsts < MaxCalls
  /\ AddBranches(b, branch, fallThrough)
  /\ branchLog' = Append(branchLog, <<b, branch, fallThrough>>)
  /\ UNCHANGED <<pc, insts>>

DriverAddInst(b, instr) ==
  /\ fault = "none"
  /\ pc[b] = "open"
  /\ TotalInsts < MaxInsts
  /\ Len(branchLog) + TotalInsts < MaxCalls
  /\ AddInst(b, instr)
  /\ insts' = [insts EXCEPT ![b] = Append(@, instr)]
  /\ UNCHANGED <<pc, branchLog>>

DriverTerminate(b) ==
  /\ fault = "none"
  /\ pc[b] = "open"
  /\ Terminate(b)
  /\ pc' = [pc EXCEPT ![b] = "terminated"]
  /\ UNCHANGED <<insts, branchLog>>

DriverFillPhis(b) ==
  /\ fault = "none"
  /\ pc[b] = "terminated"
  /\ \A c \in Blocks : pc[c] \in {"terminated", "filled"}
  /\ FillPhis(b)
  /\ pc' = [pc EXCEPT ![b] = "filled"]
  /\ UNCHANGED <<insts, branchLog>>

Next ==
  \/ \E b \in Blocks : DriverAddPhis(b)
  \/ \E b \in Blocks, br \in BlockOrNull, ft \in BlockOrNull : DriverAddBranches(b, br, ft)
  \/ \E b \in Blocks, instr \in Instrs : DriverAddInst(b, instr)
  \/ \E b \in Blocks : DriverTerminate(b)
  \/ \E b \in Blocks : DriverFillPhis(b)

Spec == Init /\ [][Next]_vars

(***************************************************************************)
(* Claims                                                                  *)
(***************************************************************************)
Terminated(b) == pc[b] \in {"terminated", "filled"}
IncomingOf(v) == phiNodes[PhiId(v)].incoming
Last(s) == s[Len(s)]

\* C1: after backfill of block B every merge placeholder of B (each required
\* (register, facet) and each flag index) has exactly Len(preds[B]) inputs, the
\* j-th being the Register File value of the j-th predecessor for the same
\* key, keyed to that predecessor's block.
C1_BackfillInputs ==
  \A b \in Blocks :
    pc[b] = "filled" =>
      \A k \in PhiKeys :
        IsRequired(b, k) =>
          /\ phis[b][k][1] = "phi"
          /\ Len(IncomingOf(phis[b][k])) = Len(preds[b])
          /\ \A j \in 1..Len(preds[b]) :
               IncomingOf(phis[b][k])[j] = <<regfile[preds[b][j]][k], preds[b][j]>>

\* C1 witness: a backfilled join block with two distinct predecessors, one of
\* which supplies a value written by an instruction.
C1_Witness ==
  \E b \in Blocks :
    /\ pc[b] = "filled"
    /\ facets[b] # {}
    /\ Len(preds[b]) = 2
    /\ preds[b][1] # preds[b][2]
    /\ \E j \in 1..2 : IncomingOf(phis[b][<<"gp", 0, "I64">>])[j][1][1] = "inst"

\* C2: with both successors registered, a constant-true condition makes
\* Terminate emit exactly one unconditional jump to the taken-branch
\* successor, a constant-false condition exactly one unconditional jump to
\* the fall-through successor, and a runtime condition exactly one two-way
\* conditional jump to (taken-branch, fall-through) in that order.
C2_TerminatorResolution ==
  \A b \in Blocks :
    (/\ Terminated(b)
     /\ nextBranch[b] # NULL
     /\ nextFallThrough[b] # NULL
     /\ new_rip[b][1] = "select") =>
      /\ new_rip[b][2] = "ctrue" => term[b] = <<Br(nextBranch[b])>>
      /\ new_rip[b][2] = "cfalse" => term[b] = <<Br(nextFallThrough[b])>>
      /\ new_rip[b][2] = "runtime" =>
           term[b] = <<CondBr(nextBranch[b], nextFallThrough[b])>>

\* C2 witness: a block with a runtime condition and two different registered
\* successors has been terminated.
C2_Witness ==
  \E b \in Blocks :
    /\ Terminated(b)
    /\ new_rip[b][1] = "select"
    /\ new_rip[b][2] = "runtime"
    /\ nextBranch[b] # NULL
    /\ nextFallThrough[b] # NULL
    /\ nextBranch[b] # nextFallThrough[b]
    /\ Len(term[b]) = 1

\* C3: when the condition of the branch selector is the undefined value,
\* Terminate emits no terminator for the block, whatever successors are
\* registered.
C3_UndefEmitsNothing ==
  \A b \in Blocks :
    (Terminated(b) /\ new_rip[b][1] = "select" /\ new_rip[b][2] = "undef") =>
      term[b] = <<>>

\* the successor Terminate needs for the selector of block b
NeedsBranch(b) ==
  new_rip[b][1] = "select" /\ new_rip[b][2] \in {"ctrue", "runtime"}
NeedsFallThrough(b) ==
  new_rip[b] = NullRip \/ (new_rip[b][1] = "select" /\ new_rip[b][2] \in {"cfalse", "runtime"})
MissingTarget(b) ==
  \/ NeedsBranch(b) /\ nextBranch[b] = NULL
  \/ NeedsFallThrough(b) /\ nextFallThrough[b] = NULL

\* C4: whenever Terminate needs a successor that was never registered, the
\* assertion fails before any jump is emitted; no jump to an absent successor
\* is ever emitted.
C4_MissingTargetAsserts ==
  \A b \in Blocks :
    /\ (Terminated(b) /\ MissingTarget(b)) => (fault = "assert" /\ term[b] = <<>>)
    /\ \A i \in 1..Len(term[b]) : term[b][i][2] # NULL

\* the selector AddInst installs before it dispatches the handler
DefaultRip(instr) ==
  SelectInst("cfalse", ConstantInt(NextRip(instr)), ConstantInt(NextRip(instr)))

\* C5: a block with a registered fall-through successor in which no
\* instruction was translated, or whose last instruction left the selector at
\* its default, gets exactly one terminator from Terminate: an unconditional
\* jump to the fall-through successor.
C5_FallThrough ==
  \A b \in Blocks :
    (/\ Terminated(b)
     /\ nextFallThrough[b] # NULL
     /\ \/ insts[b] = <<>>
        \/ insts[b] # <<>> /\ new_rip[b] = DefaultRip(Last(insts[b]))) =>
      term[b] = <<Br(nextFallThrough[b])>>

\* C5 witness: both cases have happened, a terminated block without any
\* instruction and a terminated block whose last instruction did not branch,
\* each with a fall-through successor.
C5_Witness ==
  /\ \E b \in Blocks :
       Terminated(b) /\ nextFallThrough[b] # NULL /\ insts[b] = <<>>
  /\ \E b \in Blocks :
       /\ Terminated(b)
       /\ nextFallThrough[b] # NULL
       /\ nextBranch[b] # NULL
       /\ nextBranch[b] # nextFallThrough[b]
       /\ insts[b] # <<>>
       /\ new_rip[b] = DefaultRip(Last(insts[b]))

NodesOf(b) == {i \in DOMAIN phiNodes : phiNodes[i].parent = b}

\* C7: right after AddPhis there is exactly one zero-input placeholder for
\* every required (register, facet) and for every flag index of the block, and
\* reading each of them from the block's Register File returns that key's own
\* placeholder, sibling facets of one register included.
C7_PlaceholdersInstalled ==
  \A b \in Blocks :
    (pc[b] = "open" /\ insts[b] = <<>>) =>
      /\ Cardinality(NodesOf(b)) = Cardinality({k \in PhiKeys : k[1] = "flag" \/ k \in facets[b]})
      /\ \A k \in PhiKeys :
           (k[1] = "flag" \/ k \in facets[b]) =>
             /\ Cardinality({i \in NodesOf(b) : phiNodes[i].key = k}) = 1
             /\ \E i \in NodesOf(b) :
                  /\ phiNodes[i].key = k
                  /\ phiNodes[i].incoming = <<>>
                  /\ phis[b][k] = PhiValue(i)
                  /\ (IF k[1] = "flag" THEN GetFlag(regfile[b], k[2])
                      ELSE GetReg(regfile[b], k)) = PhiValue(i)

\* C7 witness: AddPhis has just run on a block that requires two facets of
\* the same register.
C7_Witness ==
  \E b \in Blocks :
    /\ pc[b] = "open"
    /\ insts[b] = <<>>
    /\ {<<"gp", 0, "I64">>, <<"gp", 0, "I32">>} \subseteq facets[b]
    /\ regfile[b][<<"gp", 0, "I64">>] # regfile[b][<<"gp", 0, "I32">>]

\* C8 as stated: a block with an empty facet-requirement set gets no merge
\* placeholder at all.
C8_NoPlaceholders ==
  \A b \in Blocks : facets[b] = {} => NodesOf(b) = {}

\* C8 amended: a block with an empty facet-requirement set gets no register
\* placeholder; once AddPhis has run it has exactly one placeholder per flag
\* index and nothing else.
C8_OnlyFlagPlaceholders ==
  \A b \in Blocks :
    facets[b] = {} =>
      /\ \A i \in NodesOf(b) : phiNodes[i].key[1] = "flag"
      /\ pc[b] = "created" => NodesOf(b) = {}
      /\ pc[b] # "created" =>
           \A f \in 0..(RFLAG_Max - 1) :
             Cardinality({i \in NodesOf(b) : phiNodes[i].key = <<"flag", f, "I1">>}) = 1

\* C8 witness: a block with an empty facet-requirement set went through
\* placeholder creation, translation and termination.
C8_Witness ==
  \E b \in Blocks :
    /\ facets[b] = {}
    /\ Terminated(b)
    /\ insts[b] # <<>>
    /\ Len(term[b]) = 1

Count(seq, x) == Cardinality({i \in DOMAIN seq : seq[i] = x})
\* the number of (call, argument position) pairs in which a named s
Named(a, s) ==
  Cardinality({c \in (DOMAIN branchLog) \X {2, 3} :
                 branchLog[c[1]][1] = a /\ branchLog[c[1]][c[2]] = s})
\* the last non-absent argument block a passed at a position, NULL if none
LastArg(a, pos) ==
  LET I == {i \in DOMAIN branchLog : branchLog[i][1] = a /\ branchLog[i][pos] # NULL}
  IN IF I = {} THEN NULL
     ELSE branchLog[CHOOSE i \in I : \A j \in I : j <= i][pos]

\* C9: after any sequence of AddBranches calls, block A occurs in S's
\* predecessor list once per (call, argument position) in which A named S (so
\* a repeated call duplicates entries, and an absent argument adds nothing),
\* the successor links of A are the last non-absent arguments A passed, and
\* the caller of the latest call is at the end of the lists of the blocks it
\* named.
C9_EdgeRegistration ==
  /\ \A a \in Blocks, s \in Blocks : Count(preds[s], a) = Named(a, s)
  /\ \A a \in Blocks :
       /\ nextBranch[a] = LastArg(a, 2)
       /\ nextFallThrough[a] = LastArg(a, 3)
  /\ branchLog # <<>> =>
       LET c == Last(branchLog)
       IN /\ c[2] # NULL => IF c[3] = c[2]
                             THEN /\ Last(preds[c[2]]) = c[1]
                                  /\ preds[c[2]][Len(preds[c[2]]) - 1] = c[1]
                             ELSE Last(preds[c[2]]) = c[1]
          /\ c[3] # NULL => Last(preds[c[3]]) = c[1]

\* C9 witness: the same block made two calls naming the same taken-branch
\* successor, and a call with an absent argument was made.
C9_Witness ==
  /\ Len(branchLog) = 2
  /\ branchLog[1][1] = branchLog[2][1]
  /\ branchLog[1][2] # NULL
  /\ branchLog[1][2] = branchLog[2][2]
  /\ branchLog[2][3] = NULL
  /\ Count(preds[branchLog[1][2]], branchLog[1][1]) >= 2

\* the keys an instruction's handler stores, and the keys it stores with
\* invalidation of the sibling facets
Stores(instr) ==
  CASE instr.type = "ADD" -> {<<"gp", 0, "I64">>, <<"flag", 0, "I1">>}
    [] instr.type = "MOVL" -> {<<"gp", 0, "I32">>}
    [] OTHER -> {}
StoresInvalidating(instr) ==
  IF instr.type = "ADD" THEN {<<"gp", 0, "I64">>} ELSE {}
MaxOf(S) == IF S = {} THEN 0 ELSE CHOOSE i \in S : \A j \in S : j <= i
\* index of the last instruction of b that stored key k, 0 if none
LastStore(b, k) == MaxOf({n \in DOMAIN insts[b] : k \in Stores(insts[b][n])})
\* index of the last instruction of b that dropped key k by an invalidating
\* store to another facet of the same register, 0 if none
LastDrop(b, k) ==
  MaxOf({n \in DOMAIN insts[b] :
           \E k2 \in StoresInvalidating(insts[b][n]) : k2 # k /\ SameReg(k2, k)})
StoredValue(b, k, n) == IF k[1] = "flag" THEN InstFlag(b, n) ELSE InstValue(b, n)
SelfInputs(b, k) ==
  {IncomingOf(phis[b][k])[j][1] : j \in {j \in 1..Len(preds[b]) : preds[b][j] = b}}
SelfLoopFilled(b) == pc[b] = "filled" /\ \E j \in 1..Len(preds[b]) : preds[b][j] = b

RECURSIVE NamersOf(_, _)
NamersOf(s, i) ==
  IF i = 0 THEN <<>>
  ELSE LET c == branchLog[i]
           p0 == NamersOf(s, i - 1)
           p1 == IF c[2] = s THEN Append(p0, c[1]) ELSE p0
       IN IF c[3] = s THEN Append(p1, c[1]) ELSE p1
InputBlocks(v) == [j \in 1..Len(IncomingOf(v)) |-> IncomingOf(v)[j][2]]

\* C11: for every placeholder of a backfilled block B, the sequence of blocks
\* supplying its inputs is the sequence of callers that named B in the
\* AddBranches calls, in call order and, within one call, taken-branch before
\* fall-through.
C11_InputOrder ==
  \A b \in Blocks :
    pc[b] = "filled" =>
      \A k \in PhiKeys :
        IsRequired(b, k) => InputBlocks(phis[b][k]) = NamersOf(b, Len(branchLog))

\* C11 witness: a backfilled block that two different blocks named, in two
\* calls, the later call by the lower-numbered block.
C11_Witness ==
  \E b \in Blocks :
    /\ pc[b] = "filled"
    /\ Len(branchLog) = 2
    /\ branchLog[1][1] > branchLog[2][1]
    /\ InputBlocks(phis[b][<<"flag", 0, "I1">>]) = <<branchLog[1][1], branchLog[2][1]>>

IP32Key == <<"ip", 0, "I32">>
\* the entry the handlers' stores alone leave for a placeholder key of block b
HandlerEntry(b, k) ==
  IF LastStore(b, k) = 0 /\ LastDrop(b, k) = 0 THEN phis[b][k]
  ELSE IF LastStore(b, k) > LastDrop(b, k) THEN StoredValue(b, k, LastStore(b, k))
       ELSE NoValue

\* C12: an invalidating write never leaks a stale value. After the
\* instruction-pointer write of AddInst, the other facet of the instruction
\* pointer holds no value or a value the handler of that same (latest)
\* instruction stored after the write; after a handler's invalidating store, a
\* sibling facet holds no value or a value stored by a later instruction; and
\* the entries of every other register and of every flag are what the
\* handlers' own stores left.
C12_NoStaleFacet ==
  \A b \in Blocks :
    /\ insts[b] # <<>> =>
         \/ regfile[b][IP32Key] = NoValue
         \/ /\ regfile[b][IP32Key] = InstValue(b, Len(insts[b]))
            /\ Last(insts[b]).type = "JMP"
    /\ \A k \in PhiKeys :
         /\ LastDrop(b, k) > 0 =>
              \/ regfile[b][k] = NoValue
              \/ \E n \in DOMAIN insts[b] :
                   /\ n > LastDrop(b, k)
                   /\ k \in Stores(insts[b][n])
                   /\ regfile[b][k] = StoredValue(b, k, n)
         /\ regfile[b][k] = HandlerEntry(b, k)

\* C12 witness: a block whose first instruction stored the 32-bit facet of the
\* instruction pointer and whose second instruction's instruction-pointer
\* write dropped it, the flag placeholder still in place.
C12_Witness ==
  \E b \in Blocks :
    /\ Len(insts[b]) = 2
    /\ insts[b][1].type = "JMP"
    /\ insts[b][2].type = "NOP"
    /\ regfile[b][IP32Key] = NoValue
    /\ regfile[b][IPKey] = ConstantInt(0)
    /\ regfile[b][<<"flag", 0, "I1">>] = phis[b][<<"flag", 0, "I1">>]
    /\ phis[b][<<"flag", 0, "I1">>] # NoValue

\* the opcodes whose handler writes the branch selector
SelectorWriters == {"JMP", "JCC", "UD", "RET"}
\* the address after an instruction, in the address width
AddrAfter(instr) == ConstantInt((instr.addr + instr.len) % AddrModulus)

\* C13: after translating any sequence of instructions into a block, the
\* instruction pointer's 64-bit facet is the constant (a + l) mod 2^width of
\* the last instruction, and the branch selector is what the last instruction
\* alone gives: (constant false, a + l, a + l) if its handler does not write
\* the selector, and otherwise what its handler makes of that default; nothing
\* an earlier instruction's handler wrote to the selector remains.
C13_PerInstructionReset ==
  \A b \in Blocks :
    insts[b] # <<>> =>
      LET i == Last(insts[b])
          fresh == SelectInst("cfalse", AddrAfter(i), AddrAfter(i))
      IN /\ regfile[b][IPKey] = AddrAfter(i)
         /\ i.type \notin SelectorWriters => new_rip[b] = fresh
         /\ i.type \in SelectorWriters =>
              new_rip[b] = HandlerRip(i.type, fresh, AddrAfter(i))

\* C13 witness: a block whose first instruction's handler wrote a run-time
\* condition and a jump target to the selector and whose second instruction,
\* at the top of the address space, left the selector at its default with the
\* wrapped-around address.
C13_Witness ==
  \E b \in Blocks :
    /\ Len(insts[b]) = 2
    /\ insts[b][1].type = "JCC"
    /\ insts[b][2].type = "NOP"
    /\ insts[b][2].addr + insts[b][2].len = AddrModulus
    /\ new_rip[b] = SelectInst("cfalse", ConstantInt(0), ConstantInt(0))
    /\ regfile[b][IPKey] = ConstantInt(0)

IsPrefix(s, t) == Len(s) <= Len(t) /\ \A i \in DOMAIN s : t[i] = s[i]
\* a step in which Terminate of b, respectively FillPhis of b, ran
TerminateStep(b) == pc[b] = "open" /\ pc'[b] = "terminated"
FillPhisStep(b) == pc[b] = "terminated" /\ pc'[b] = "filled"
ConstructionUnchanged ==
  /\ regfile' = regfile
  /\ preds' = preds
  /\ nextBranch' = nextBranch
  /\ nextFallThrough' = nextFallThrough

\* C14: Terminate of any block and FillPhis of any block B leave every
\* block's Register File entries, every predecessor list and every successor
\* link unchanged; FillPhis of B creates no placeholder, appends inputs to B's
\* own placeholders only, leaves every other block's placeholders, the
\* selectors and the emitted terminators as they were, and clears the shared
\* live Register File handle.
C14_ReadOnlySteps ==
  [][\A b \in Blocks :
       /\ TerminateStep(b) => ConstructionUnchanged /\ phiNodes' = phiNodes /\ phis' = phis
       /\ FillPhisStep(b) =>
            /\ ConstructionUnchanged
            /\ phis' = phis /\ new_rip' = new_rip /\ term' = term
            /\ state_regfile' = NULL
            /\ Len(phiNodes') = Len(phiNodes)
            /\ \A i \in DOMAIN phiNodes :
                 /\ phiNodes'[i].parent = phiNodes[i].parent
                 /\ phiNodes'[i].key = phiNodes[i].key
                 /\ IsPrefix(phiNodes[i].incoming, phiNodes'[i].incoming)
                 /\ phiNodes[i].parent # b => phiNodes'[i].incoming = phiNodes[i].incoming
                 /\ phiNodes[i].parent = b =>
                      Len(phiNodes'[i].incoming) = Len(phiNodes[i].incoming) + Len(preds[b])
  ]_vars

\* C14 witness: block B is backfilled with inputs from another block P that
\* is terminated and not yet backfilled; P's placeholders have no input, P's
\* Register File still holds its entries and the links of P are recorded.
C14_Witness ==
  \E b \in Blocks, p \in Blocks :
    /\ b # p
    /\ pc[b] = "filled" /\ pc[p] = "terminated"
    /\ preds[b] = <<p>>
    /\ nextBranch[p] = b
    /\ term[p] # <<>>
    /\ state_regfile = NULL
    /\ InputBlocks(phis[b][<<"flag", 0, "I1">>]) = <<p>>
    /\ IncomingOf(phis[p][<<"flag", 0, "I1">>]) = <<>>
    /\ regfile[p][<<"flag", 0, "I1">>] # NoValue

CallsBy(a) == Cardinality({i \in DOMAIN branchLog : branchLog[i][1] = a})
\* the number of jump edges from a to b in the terminators emitted for a
JumpsInto(t, b) ==
  IF t[1] = "br" THEN (IF t[2] = b THEN 1 ELSE 0)
  ELSE (IF t[2] = b THEN 1 ELSE 0) + (IF t[3] = b THEN 1 ELSE 0)
RECURSIVE JumpEdges(_, _, _)
JumpEdges(a, b, i) ==
  IF i = 0 THEN 0 ELSE JumpsInto(term[a][i], b) + JumpEdges(a, b, i - 1)

\* C15: once every block is terminated and backfilled, each block having
\* called AddBranches once, every placeholder of every block B has as many
\* inputs from a block A as Terminate emitted jump edges from A into B.
C15_InputsMatchJumps ==
  ((\A b \in Blocks : pc[b] = "filled") /\ (\A a \in Blocks : CallsBy(a) = 1)) =>
    \A b \in Blocks, a \in Blocks, k \in PhiKeys :
      IsRequired(b, k) =>
        Count(InputBlocks(phis[b][k]), a) = JumpEdges(a, b, Len(term[a]))

AtMostOneCall == \A a \in Blocks : CallsBy(a) <= 1
NamedTwice(a, s) == \E i \in DOMAIN branchLog : branchLog[i] = <<a, s, s>>

\* C16 as stated: if every block calls AddBranches at most once, no block
\* occurs more than once in any predecessor list.
C16_NoDuplicatePreds ==
  AtMostOneCall => \A a \in Blocks, s \in Blocks : Count(preds[s], a) <= 1

\* C16 amended: if every block calls AddBranches at most once, block A occurs
\* in S's predecessor list at most twice, twice exactly when A passed S as
\* both its taken-branch and its fall-through successor, and every placeholder
\* of a backfilled S has one input from A per occurrence.
C16_OncePerPosition ==
  AtMostOneCall =>
    \A a \in Blocks, s \in Blocks :
      /\ Count(preds[s], a) <= 2
      /\ Count(preds[s], a) = 2 <=> NamedTwice(a, s)
      /\ pc[s] = "filled" =>
           \A k \in PhiKeys :
             IsRequired(s, k) => Count(InputBlocks(phis[s][k]), a) = Count(preds[s], a)

\* C16 witness: every block called AddBranches at most once, one of them
\* passed the same block in both positions, and that block is backfilled with
\* two inputs from the caller.
C16_Witness ==
  /\ AtMostOneCall
  /\ \E a \in Blocks, s \in Blocks :
       /\ a # s
       /\ NamedTwice(a, s)
       /\ pc[s] = "filled"
       /\ InputBlocks(phis[s][<<"flag", 0, "I1">>]) = <<a, a>>

Occurs(a, s) == \E j \in DOMAIN preds[s] : preds[s][j] = a
LinksConsistent ==
  /\ \A a \in Blocks :
       /\ nextBranch[a] # NULL => Occurs(a, nextBranch[a])
       /\ nextFallThrough[a] # NULL => Occurs(a, nextFallThrough[a])
  /\ AtMostOneCall =>
       \A a \in Blocks, s \in Blocks :
         Occurs(a, s) => (nextBranch[a] = s \/ nextFallThrough[a] = s)
LinksOnlyGrow ==
  \A a \in Blocks :
    /\ IsPrefix(preds[a], preds'[a])
    /\ nextBranch[a] # NULL => nextBranch'[a] # NULL
    /\ nextFallThrough[a] # NULL => nextFallThrough'[a] # NULL

\* C17: in every reachable state a block recorded as A's taken-branch or
\* fall-through successor has A in its predecessor list, and if every block
\* called AddBranches at most once, A is in B's predecessor list only if B is
\* one of A's recorded successors; in every step each predecessor list keeps
\* its entries (it only grows at the end) and a recorded successor does not
\* become absent.
C17_LinksAndPreds == []LinksConsistent /\ [][LinksOnlyGrow]_vars

\* C17 witness: every block called AddBranches at most once, a block
\* recorded two different successors and is in the predecessor list of both,
\* one of which holds two entries.
C17_Witness ==
  /\ AtMostOneCall
  /\ \E a \in Blocks :
       /\ nextBranch[a] # NULL /\ nextFallThrough[a] # NULL
       /\ nextBranch[a] # nextFallThrough[a]
       /\ Occurs(a, nextBranch[a]) /\ Occurs(a, nextFallThrough[a])
       /\ Len(preds[nextBranch[a]]) = 2

\* C18: under the driver protocol, when block B is backfilled every
\* predecessor's Register File holds a stored value for every (register,
\* facet) that has a placeholder in B and for every flag index.
C18_BackfillReadsStored ==
  \A b \in Blocks :
    pc[b] = "filled" =>
      \A j \in DOMAIN preds[b], k \in PhiKeys :
        IsRequired(b, k) => GetReg(regfile[preds[b][j]], k) # NoValue
====
